---------------------------- MODULE Spec2Model ----------------------------
(***************************************************************************)
(* PackageVersionFileService (app/core/service/PackageVersionFileService.ts)*)
(* as a state machine: callers issue listPackageVersionFiles,               *)
(* showPackageVersionFile and syncPackageVersionFiles for one package       *)
(* version; every await of the service is one step of the calling process.  *)
(***************************************************************************)
EXTENDS Integers, Sequences, FiniteSets, TLC

(***************************************************************************)
(* Bounds of the model.                                                     *)
(***************************************************************************)
\* Spec, two concurrent callers: calls issued in all, I/O failures injected
MaxCalls == 2
MaxFaults == 1
\* SpecSeq, one caller: calls issued, I/O failures injected
MaxCallsSeq == 2
MaxFaultsSeq == 2

\* two callers: the "two simultaneous calls" of the concurrency contract
Procs == {"p1", "p2"}

None == "none"
VersionId == "v1"
PublishTime == "t0"

(***************************************************************************)
(* Tarballs.  A member is [type, path, content]; path is the member name    *)
(* split at '/', e.g. package/lib/b.js is <<"package", "lib", "b.js">>.     *)
(* bad = -1 is a well-formed archive; bad = k >= 0 is an archive on which   *)
(* tar.extract fails with TAR_BAD_ARCHIVE after k entries were reported.    *)
(***************************************************************************)
F(path, content) == [type |-> "File", path |-> path, content |-> content]
D(path) == [type |-> "Directory", path |-> path, content |-> None]
Tar(members, bad) == [members |-> members, bad |-> bad]

mA == F(<<"package", "a.js">>, "ca")
mB == F(<<"package", "lib", "b.js">>, "cb")
mReadme == F(<<"package", "README.md">>, "cr")
mReadmeLower == F(<<"package", "readme.md">>, "cl")
mReadmeDeep == F(<<"package", "docs", "README.md">>, "cd")
mHidden == F(<<"package", ".", "h.js">>, "ch")
mOtherA == F(<<"pkg", "a.js">>, "co")
mLibDir == D(<<"package", "lib">>)

\* the tarballs of Spec
Tarballs ==
    { Tar(<<mA, mReadme>>, -1),
      Tar(<<mLibDir, mB>>, -1),
      Tar(<<mA>>, 1),
      Tar(<<>>, -1) }

\* SpecSeq draws from these too
MoreTarballs ==
    { Tar(<<mA, mB, mReadme>>, -1),
      Tar(<<mReadmeLower, mReadme, mA>>, -1),
      Tar(<<mReadmeDeep, mB>>, -1),
      Tar(<<mHidden, mA>>, -1),
      Tar(<<mA, mOtherA>>, -1),
      Tar(<<mA, mB>>, 0),
      Tar(<<mA, mB>>, 2) }

\* the paths callers ask showPackageVersionFile for, and the directories they list
ShowPaths == { <<"README.md">>, <<"zz.js">> }
ListDirs == { <<>> }

(***************************************************************************)
(* Pure helpers of the service.                                             *)
(***************************************************************************)
\* onentry, line 76: only entries of type File are manifested
IsFileEntry(entry) == entry.type = "File"

\* onentry, line 78: entry.path.includes('/./'), a "." segment with a
\* segment before it and one after it
IsHiddenDir(path) == \E k \in 2..(Len(path) - 1) : path[k] = "."

\* variant: the first segment is kept
StripFirstNone(path) == path
\* onentry, line 81: entry.path.split('/').slice(1).join('/')
StripFirst(path) == IF Len(path) = 0 THEN <<>> ELSE Tail(path)

\* onentry, line 84: the three literal README names at the package root
IsReadme(filename) ==
    filename \in { <<"README.md">>, <<"readme.md">>, <<"Readme.md">> }

\* variant: a later README name replaces the earlier one
OnEntryLastReadme(m, entry) ==
    IF ~IsFileEntry(entry) THEN m
    ELSE IF IsHiddenDir(entry.path) THEN m
    ELSE LET filename == StripFirst(entry.path)
         IN  [paths |-> Append(m.paths, filename),
              readme |-> IF IsReadme(filename) THEN filename ELSE m.readme]
\* onentry, lines 75-88, applied to one entry; m = [paths, readme]
OnEntry(m, entry) ==
    IF ~IsFileEntry(entry) THEN m
    ELSE IF IsHiddenDir(entry.path) THEN m
    ELSE LET filename == StripFirst(entry.path)
         IN  [paths |-> Append(m.paths, filename),
              readme |-> IF m.readme = None /\ IsReadme(filename)
                         THEN filename ELSE m.readme]

\* the manifest after tar.extract reported the first k members
RECURSIVE Manifest(_, _)
Manifest(members, k) ==
    IF k = 0 THEN [paths |-> <<>>, readme |-> None]
    ELSE OnEntry(Manifest(members, k - 1), members[k])

\* variant: every file is put in the root directory
GetDirectoryAndNameFlat(path) ==
    [directory |-> <<>>,
     name |-> IF Len(path) = 0 THEN "" ELSE path[Len(path)]]
\* #getDirectoryAndName, lines 155-160: dirname and basename of '/' + path;
\* the directory '/' is the empty sequence of segments
GetDirectoryAndName(path) ==
    [directory |-> IF Len(path) <= 1 THEN <<>> ELSE SubSeq(path, 1, Len(path) - 1),
     name |-> IF Len(path) = 0 THEN "" ELSE path[Len(path)]]


(***************************************************************************)
(* Errors and outcomes.                                                     *)
(***************************************************************************)
Err(code, at) == [code |-> code, at |-> at]
NoErr == Err(None, None)

Returned(v) == [kind |-> "return", val |-> v]
Threw(e) == [kind |-> "throw", val |-> e]
NoOutcome == [kind |-> None, val |-> None]

\* variant: no error is taken for a bad archive
IsBadArchiveNever(err) == FALSE
\* line 106: err.code === 'TAR_BAD_ARCHIVE'
IsBadArchive(err) == err.code = "TAR_BAD_ARCHIVE"

\* variant: no error is taken for a duplicate entry
IsDupEntryNever(err) == FALSE
\* line 149: err.code === 'ER_DUP_ENTRY'
IsDupEntry(err) == err.code = "ER_DUP_ENTRY"

\* variant: the catch block ignores every error
CatchSwallowAll(err, files) == Returned(files)
\* lines 102-107: the catch block of syncPackageVersionFiles
Catch(err, files) == IF IsBadArchive(err) THEN Returned(files) ELSE Threw(err)

\* variant: a removal error leaves the finally block
FinallyOutcomeMasked(pending, cleanupErr) ==
    IF cleanupErr = NoErr THEN pending ELSE Threw(cleanupErr)
\* lines 108-116: the finally block swallows what the removals throw, so the
\* outcome of the try/catch stands
FinallyOutcome(pending, cleanupErr) == pending

\* variant: the check is ignored
NeedSyncAlways(hasFiles) == TRUE
\* line 52: if (!hasFiles)
NeedSync(hasFiles) == ~hasFiles

\* variant: a missing package is not noticed
PkgMissingNever(pkg) == FALSE
\* line 60: if (!pkg) return files; pkg is whether the package was found
PkgMissing(pkg) == ~pkg

\* variant: the existing entry is ignored
IsFoundNever(found) == FALSE
\* line 123: if (file) return file
IsFound(found) == found # {}

\* variant: the name has no unique suffix
TempNameShared(inv) == <<"unpkg">>
\* lines 61-63: the temporary directory of one invocation, named with a
\* randomUUID(); inv is the invocation (caller, call number)
TempName(inv) == <<"unpkg", inv>>

TmpDir(tok) == <<"dir", tok>>
\* line 63: tarFile = `${tmpdir}.tgz`
TarFile(tok) == <<"tgz", tok>>

\* variant: the tarball file is left behind
RmTarFileKeep(d, tok) == d
\* line 110: fs.rm(tarFile, { force: true })
RmTarFile(d, tok) == d \ {TarFile(tok)}

\* line 111: fs.rm(tmpdir, { recursive: true, force: true })
RmTmpDir(d, tok) == d \ {TmpDir(tok)}

(***************************************************************************)
(* Collaborators: index (PackageVersionFileRepository), content store       *)
(* (DistRepository), integrity and mime helpers.                            *)
(***************************************************************************)
Key(e) == <<e.packageVersionId, e.directory, e.name>>

\* findPackageVersionFile(packageVersionId, directory, name)
FindPackageVersionFile(idx, dn) ==
    { e \in idx : Key(e) = <<VersionId, dn.directory, dn.name>> }

\* hasPackageVersionFiles(packageVersionId)
HasPackageVersionFiles(idx) == \E e \in idx : e.packageVersionId = VersionId

\* listPackageVersionFiles(packageVersionId, directory)
ListPackageVersionFiles(idx, dir) ==
    { e \in idx : e.packageVersionId = VersionId /\ e.directory = dir }

\* createPackageVersionFile(file): the unique (version, directory, name)
\* tuple rejects a second row with ER_DUP_ENTRY
InsertConflicts(idx, file) == \E e \in idx : Key(e) = Key(file)

\* variant: the duplicate replaces the row that is there
OnDuplicateReplace(idx, file) == { e \in idx : Key(e) # Key(file) } \cup {file}
\* lines 147-150: on ER_DUP_ENTRY nothing more is written
OnDuplicate(idx, file) == idx

\* calculateIntegrity(localFile): a digest of the bytes
CalculateIntegrity(content) == <<"sha512", content>>

\* fs.stat(localFile).size
StatSize(content) == <<"size", content>>

\* mimeLookup(path)
MimeLookup(name) ==
    IF name \in {"a.js", "b.js", "h.js"} THEN "application/javascript"
    ELSE IF name \in {"README.md", "readme.md", "Readme.md"} THEN "text/markdown"
    ELSE "application/octet-stream"

\* tar.extract, lines 71-74 (strip: 1): what lies at join(tmpdir, path) is
\* the content of the last file member whose stripped name is path
LocalContent(members, path) ==
    LET hits == { k \in 1..Len(members) :
                    /\ members[k].type = "File"
                    /\ StripFirst(members[k].path) = path }
    IN  IF hits = {} THEN None
        ELSE members[CHOOSE k \in hits : \A j \in hits : j <= k].content

\* lines 128-133: pkg.createPackageVersionFile(encodeURI(path), version, {...})
CreateDist(path, size, integrity) ==
    [path |-> <<"uri", path>>, size |-> size, integrity |-> integrity]

\* lines 135-142: PackageVersionFile.create({...}); id is the fresh
\* packageVersionFileId of the new entity
CreateFileEntity(path, dist, id) ==
    [packageVersionId |-> VersionId,
     directory |-> GetDirectoryAndName(path).directory,
     name |-> GetDirectoryAndName(path).name,
     dist |-> dist,
     contentType |-> MimeLookup(GetDirectoryAndName(path).name),
     mtime |-> PublishTime,
     fileId |-> id]


(***************************************************************************)
(* State.                                                                   *)
(***************************************************************************)
VARIABLES
    tarball,       \* the version's tarball in the blob store
    pkgExists,     \* whether findPackageByPackageId finds the package
    index,         \* PackageVersionFile rows
    blobs,         \* dists saved by saveDist
    disk,          \* temporary files and directories that exist
    readmes,       \* savePackageVersionReadme calls made: <<invocation, path>>
    proc,          \* per caller: position and locals of its current call
    faultsLeft,        \* I/O failures the environment may still inject
    callsLeft,     \* calls the callers may still issue
    lazyTriggers   \* syncs started by #ensurePackageVersionFilesSync

vars == <<tarball, pkgExists, index, blobs, disk, readmes, proc, faultsLeft, callsLeft,
          lazyTriggers>>

NoWork == [stat |-> 0, integrity |-> 0, saveDist |-> 0, insert |-> 0]

\* the manifest keys of the whole tarball
AllPaths == Manifest(tarball.members, Len(tarball.members)).paths
Range(s) == { s[k] : k \in 1..Len(s) }
HasKey(idx, path) == FindPackageVersionFile(idx, GetDirectoryAndName(path)) # {}
IndexFull == \A path \in Range(AllPaths) : HasKey(index, path)

InitProc ==
    [pc |-> "idle", op |-> None, arg |-> <<>>, calls |-> 0,
     \* locals of syncPackageVersionFiles
     tmp |-> None, paths |-> <<>>, files |-> <<>>, readme |-> None, idx |-> 1,
     pending |-> NoOutcome,
     \* locals of #savePackageVersionFile
     size |-> None, integrity |-> None, dist |-> None,
     \* what the caller receives
     ret |-> NoOutcome,
     \* history of the current call
     sawFiles |-> FALSE, lazy |-> FALSE, synced |-> FALSE, syncRet |-> NoOutcome, raised |-> NoErr,
     cleanupRan |-> FALSE, rmFailed |-> FALSE, rmTried |-> {}, dupAbsorbed |-> FALSE,
     work |-> NoWork, fullAtStart |-> FALSE, emptyAtStart |-> FALSE,
     partialAtStart |-> FALSE, missOnNonEmpty |-> FALSE]

Start ==
    /\ pkgExists \in BOOLEAN
    /\ index = {}
    /\ blobs = {}
    /\ disk = {}
    /\ readmes = {}
    /\ lazyTriggers = 0

Init ==
    /\ Start
    /\ tarball \in Tarballs
    /\ proc = [p \in Procs |-> InitProc]
    /\ faultsLeft = MaxFaults
    /\ callsLeft = MaxCalls

\* one caller: the second one never calls
InitSeq ==
    /\ Start
    /\ tarball \in Tarballs \cup MoreTarballs
    /\ proc = [p \in Procs |-> IF p = "p1" THEN InitProc ELSE [InitProc EXCEPT !.pc = "off"]]
    /\ faultsLeft = MaxFaultsSeq
    /\ callsLeft = MaxCallsSeq

Fault == faultsLeft > 0 /\ faultsLeft' = faultsLeft - 1
NoFault == faultsLeft' = faultsLeft

Inv(p) == <<p, proc[p].calls>>
Tok(p) == TempName(Inv(p))

OthersSyncing(p) ==
    \E q \in Procs \ {p} : proc[q].pc \notin {"idle", "off", "ensure", "query", "done"}

(***************************************************************************)
(* Control flow shared by the steps.                                        *)
(***************************************************************************)
\* syncPackageVersionFiles is over with this outcome: control is back in the
\* caller, or in #ensurePackageVersionFilesSync (lines 53, 39-40, 44-47)
Finish(r, outcome) ==
    LET r1 == [r EXCEPT !.syncRet = outcome] IN
    IF r.op = "sync" \/ outcome.kind = "throw"
    THEN [r1 EXCEPT !.pc = "done", !.ret = outcome]
    ELSE [r1 EXCEPT !.pc = "query"]

\* variant: the README is handed over before the paths are materialized,
\* and the loop is skipped
LoopNextReadmeFirst(r) ==
    IF r.readme # None THEN [r EXCEPT !.pc = "sync_readme"]
    ELSE IF r.idx <= Len(r.paths) THEN [r EXCEPT !.pc = "sync_find"]
    ELSE [r EXCEPT !.pc = "sync_rm_tar", !.pending = Returned(r.files)]
\* lines 90, 95-101: next path of the loop, or what follows the loop
LoopNext(r) ==
    IF r.idx <= Len(r.paths) THEN [r EXCEPT !.pc = "sync_find"]
    ELSE IF r.readme # None THEN [r EXCEPT !.pc = "sync_readme"]
    ELSE [r EXCEPT !.pc = "sync_rm_tar", !.pending = Returned(r.files)]

\* variant: a bad archive is taken for the end of the archive, and the
\* paths manifested so far are materialized
BodyFailResume(r, e) ==
    IF e.code = "TAR_BAD_ARCHIVE" THEN LoopNext([r EXCEPT !.raised = e])
    ELSE [r EXCEPT !.pc = "sync_rm_tar", !.pending = Catch(e, r.files), !.raised = e]
\* the try block is left with an error: catch, then on to the finally block
BodyFail(r, e) ==
    [r EXCEPT !.pc = "sync_rm_tar", !.pending = Catch(e, r.files), !.raised = e]

\* variant: the failure of saveDist is not waited for
SaveDistFailedGoOn(r, e, dist) == [r EXCEPT !.pc = "sync_create", !.dist = dist]
\* line 134: await saveDist; its failure leaves #savePackageVersionFile
SaveDistFailed(r, e, dist) == BodyFail(r, e)

\* line 93: files.push(file), and on to the next path
Pushed(r, file) ==
    LoopNext([r EXCEPT !.files = Append(r.files, file), !.idx = r.idx + 1,
                       !.size = None, !.integrity = None, !.dist = None])

(***************************************************************************)
(* Steps.                                                                   *)
(***************************************************************************)
\* a caller invokes one of the three public operations
Call(p, op, arg) ==
    /\ proc[p].pc \in {"idle", "done"}
    /\ callsLeft > 0
    /\ callsLeft' = callsLeft - 1
    /\ proc' = [proc EXCEPT ![p] =
            [InitProc EXCEPT
                !.pc = IF op = "sync" THEN "sync_findpkg" ELSE "ensure",
                !.op = op, !.arg = arg, !.calls = proc[p].calls + 1,
                !.synced = (op = "sync"),
                !.fullAtStart = IndexFull,
                !.emptyAtStart = (index = {} /\ ~OthersSyncing(p)),
                !.partialAtStart = (index # {} /\ ~IndexFull /\ ~OthersSyncing(p))]]
    /\ UNCHANGED <<tarball, pkgExists, index, blobs, disk, readmes, faultsLeft, lazyTriggers>>

CallSync(p) == Call(p, "sync", <<>>)
CallList(p) == \E d \in ListDirs : Call(p, "list", d)
CallShow(p) == \E path \in ShowPaths : Call(p, "show", path)

\* #ensurePackageVersionFilesSync, lines 50-55
Ensure(p) ==
    /\ proc[p].pc = "ensure"
    /\ LET hasFiles == HasPackageVersionFiles(index) IN
       IF NeedSync(hasFiles)
       THEN /\ proc' = [proc EXCEPT ![p].pc = "sync_findpkg", ![p].lazy = TRUE,
                                     ![p].synced = TRUE, ![p].sawFiles = hasFiles]
            /\ lazyTriggers' = lazyTriggers + 1
       ELSE /\ proc' = [proc EXCEPT ![p].pc = "query", ![p].sawFiles = hasFiles]
            /\ lazyTriggers' = lazyTriggers
    /\ UNCHANGED <<callsLeft, tarball, pkgExists, index, blobs, disk, readmes, faultsLeft>>

\* lines 59-60: findPackageByPackageId, if (!pkg) return files
FindPackage(p) ==
    /\ proc[p].pc = "sync_findpkg"
    /\ proc' = [proc EXCEPT ![p] =
            IF PkgMissing(pkgExists) THEN Finish(@, Returned(@.files))
            ELSE [@ EXCEPT !.pc = "sync_mktmp"]]
    /\ UNCHANGED <<callsLeft, tarball, pkgExists, index, blobs, disk, readmes, faultsLeft, lazyTriggers>>

\* lines 61-63: createTempDir, before the try block
CreateTempDir(p) ==
    /\ proc[p].pc = "sync_mktmp"
    /\ \/ /\ NoFault
          /\ disk' = disk \cup {TmpDir(Tok(p))}
          /\ proc' = [proc EXCEPT ![p].pc = "sync_download", ![p].tmp = Tok(p)]
       \/ /\ Fault
          /\ disk' = disk
          /\ proc' = [proc EXCEPT ![p] = Finish(@, Threw(Err("EIO", "createTempDir")))]
    /\ UNCHANGED <<callsLeft, tarball, pkgExists, index, blobs, readmes, lazyTriggers>>

\* line 69: downloadDistToFile(pkgVersion.tarDist, tarFile)
Download(p) ==
    /\ proc[p].pc = "sync_download"
    /\ \/ /\ NoFault
          /\ disk' = disk \cup {TarFile(proc[p].tmp)}
          /\ proc' = [proc EXCEPT ![p].pc = "sync_extract"]
       \/ /\ Fault
          /\ \E partial \in BOOLEAN :
                disk' = IF partial THEN disk \cup {TarFile(proc[p].tmp)} ELSE disk
          /\ proc' = [proc EXCEPT ![p] = BodyFail(@, Err("EIO", "download"))]
    /\ UNCHANGED <<callsLeft, tarball, pkgExists, index, blobs, readmes, lazyTriggers>>

\* lines 71-89: tar.extract with the onentry callback
Extract(p) ==
    /\ proc[p].pc = "sync_extract"
    /\ LET n == Len(tarball.members)
           reported(k) == Manifest(tarball.members, k)
           with(r, k) == [r EXCEPT !.paths = reported(k).paths,
                                   !.readme = reported(k).readme]
       IN
       IF TarFile(proc[p].tmp) \notin disk \/ TmpDir(proc[p].tmp) \notin disk
       THEN /\ NoFault
            /\ proc' = [proc EXCEPT ![p] = BodyFail(@, Err("ENOENT", "extract"))]
       ELSE IF tarball.bad >= 0
       THEN /\ NoFault
            /\ proc' = [proc EXCEPT ![p] =
                    BodyFail(with(@, tarball.bad), Err("TAR_BAD_ARCHIVE", "extract"))]
       ELSE \/ /\ NoFault
               /\ proc' = [proc EXCEPT ![p] = LoopNext(with(@, n))]
            \/ /\ Fault
               /\ \E k \in {0, n} :
                    proc' = [proc EXCEPT ![p] = BodyFail(with(@, k), Err("EIO", "extract"))]
    /\ UNCHANGED <<callsLeft, tarball, pkgExists, index, blobs, disk, readmes, lazyTriggers>>

\* lines 120-123: findPackageVersionFile, if (file) return file
FindFile(p) ==
    /\ proc[p].pc = "sync_find"
    /\ LET r == proc[p]
           found == FindPackageVersionFile(index, GetDirectoryAndName(r.paths[r.idx]))
       IN  proc' = [proc EXCEPT ![p] =
                IF IsFound(found) THEN Pushed(r, CHOOSE e \in found : TRUE)
                ELSE [r EXCEPT !.pc = "sync_stat"]]
    /\ UNCHANGED <<callsLeft, tarball, pkgExists, index, blobs, disk, readmes, faultsLeft, lazyTriggers>>

\* line 124: fs.stat(localFile)
Stat(p) ==
    /\ proc[p].pc = "sync_stat"
    /\ LET r == proc[p]
           content == LocalContent(tarball.members, r.paths[r.idx])
           r1 == [r EXCEPT !.work.stat = @ + 1]
       IN
       IF TmpDir(r.tmp) \notin disk
       THEN /\ NoFault
            /\ proc' = [proc EXCEPT ![p] = BodyFail(r1, Err("ENOENT", "stat"))]
       ELSE \/ /\ NoFault
               /\ proc' = [proc EXCEPT ![p] =
                        [r1 EXCEPT !.pc = "sync_integrity", !.size = StatSize(content)]]
            \/ /\ Fault
               /\ proc' = [proc EXCEPT ![p] = BodyFail(r1, Err("EIO", "stat"))]
    /\ UNCHANGED <<callsLeft, tarball, pkgExists, index, blobs, disk, readmes, lazyTriggers>>

\* line 125: calculateIntegrity(localFile)
Integrity(p) ==
    /\ proc[p].pc = "sync_integrity"
    /\ LET r == proc[p]
           content == LocalContent(tarball.members, r.paths[r.idx])
           r1 == [r EXCEPT !.work.integrity = @ + 1]
       IN
       IF TmpDir(r.tmp) \notin disk
       THEN /\ NoFault
            /\ proc' = [proc EXCEPT ![p] = BodyFail(r1, Err("ENOENT", "integrity"))]
       ELSE \/ /\ NoFault
               /\ proc' = [proc EXCEPT ![p] =
                        [r1 EXCEPT !.pc = "sync_savedist",
                                   !.integrity = CalculateIntegrity(content)]]
            \/ /\ Fault
               /\ proc' = [proc EXCEPT ![p] = BodyFail(r1, Err("EIO", "integrity"))]
    /\ UNCHANGED <<callsLeft, tarball, pkgExists, index, blobs, disk, readmes, lazyTriggers>>

\* lines 128-134: createPackageVersionFile(distPath, ...) and saveDist(dist, localFile)
SaveDist(p) ==
    /\ proc[p].pc = "sync_savedist"
    /\ LET r == proc[p]
           dist == CreateDist(r.paths[r.idx], r.size, r.integrity)
           r1 == [r EXCEPT !.work.saveDist = @ + 1]
       IN
       IF TmpDir(r.tmp) \notin disk
       THEN /\ NoFault
            /\ blobs' = blobs
            /\ proc' = [proc EXCEPT ![p] = BodyFail(r1, Err("ENOENT", "saveDist"))]
       ELSE \/ /\ NoFault
               /\ blobs' = blobs \cup {dist}
               /\ proc' = [proc EXCEPT ![p] =
                        [r1 EXCEPT !.pc = "sync_create", !.dist = dist]]
            \/ /\ Fault
               /\ blobs' = blobs
               /\ proc' = [proc EXCEPT ![p] = SaveDistFailed(r1, Err("EIO", "saveDist"), dist)]
    /\ UNCHANGED <<callsLeft, tarball, pkgExists, index, disk, readmes, lazyTriggers>>

\* lines 135-152: PackageVersionFile.create and createPackageVersionFile
CreateFile(p) ==
    /\ proc[p].pc = "sync_create"
    /\ LET r == proc[p]
           file == CreateFileEntity(r.paths[r.idx], r.dist, <<Inv(p), r.idx>>)
           r1 == [r EXCEPT !.work.insert = @ + 1]
           dup == Err("ER_DUP_ENTRY", "createPackageVersionFile")
           eio == Err("EIO", "createPackageVersionFile")
       IN
       IF InsertConflicts(index, file)
       THEN /\ NoFault
            /\ index' = OnDuplicate(index, file)
            /\ proc' = [proc EXCEPT ![p] =
                    IF IsDupEntry(dup)
                    THEN Pushed([r1 EXCEPT !.dupAbsorbed = TRUE], file)
                    ELSE BodyFail(r1, dup)]
       ELSE \/ /\ NoFault
               /\ index' = index \cup {file}
               /\ proc' = [proc EXCEPT ![p] = Pushed(r1, file)]
            \/ /\ Fault
               /\ index' = index
               /\ proc' = [proc EXCEPT ![p] =
                        IF IsDupEntry(eio) THEN Pushed(r1, file) ELSE BodyFail(r1, eio)]
    /\ UNCHANGED <<callsLeft, tarball, pkgExists, blobs, disk, readmes, lazyTriggers>>

\* lines 97-101: savePackageVersionReadme(pkgVersion, join(tmpdir, readmeFilename))
SaveReadme(p) ==
    /\ proc[p].pc = "sync_readme"
    /\ LET r == proc[p] IN
       \/ /\ NoFault
          /\ readmes' = readmes \cup {<<Inv(p), r.readme>>}
          /\ proc' = [proc EXCEPT ![p] =
                    [r EXCEPT !.pc = "sync_rm_tar", !.pending = Returned(r.files)]]
       \/ /\ Fault
          /\ readmes' = readmes
          /\ proc' = [proc EXCEPT ![p] = BodyFail(r, Err("EIO", "savePackageVersionReadme"))]
    /\ UNCHANGED <<callsLeft, tarball, pkgExists, index, blobs, disk, lazyTriggers>>

\* lines 108-110, 112-115: finally, fs.rm(tarFile); a failure is logged and
\* ends the finally block
RmTar(p) ==
    /\ proc[p].pc = "sync_rm_tar"
    /\ LET r == [proc[p] EXCEPT !.cleanupRan = TRUE, !.rmTried = @ \cup {"tarFile"}] IN
       \/ /\ NoFault
          /\ disk' = RmTarFile(disk, r.tmp)
          /\ proc' = [proc EXCEPT ![p] = [r EXCEPT !.pc = "sync_rm_dir"]]
       \/ /\ Fault
          /\ disk' = disk
          /\ proc' = [proc EXCEPT ![p] =
                Finish([r EXCEPT !.rmFailed = TRUE],
                       FinallyOutcome(r.pending, Err("EPERM", "rm tarFile")))]
    /\ UNCHANGED <<callsLeft, tarball, pkgExists, index, blobs, readmes, lazyTriggers>>

\* lines 111-116: fs.rm(tmpdir); a failure is logged; the call is over
RmDir(p) ==
    /\ proc[p].pc = "sync_rm_dir"
    /\ LET r == [proc[p] EXCEPT !.rmTried = @ \cup {"tmpdir"}] IN
       \/ /\ NoFault
          /\ disk' = RmTmpDir(disk, r.tmp)
          /\ proc' = [proc EXCEPT ![p] = Finish(r, FinallyOutcome(r.pending, NoErr))]
       \/ /\ Fault
          /\ disk' = disk
          /\ proc' = [proc EXCEPT ![p] =
                Finish([r EXCEPT !.rmFailed = TRUE],
                       FinallyOutcome(r.pending, Err("EPERM", "rm tmpdir")))]
    /\ UNCHANGED <<callsLeft, tarball, pkgExists, index, blobs, readmes, lazyTriggers>>

\* lines 40 and 45-47: the read that answers list and show
Query(p) ==
    /\ proc[p].pc = "query"
    /\ LET r == proc[p]
           found == FindPackageVersionFile(index, GetDirectoryAndName(r.arg))
       IN  proc' = [proc EXCEPT ![p] =
              IF r.op = "list"
              THEN [r EXCEPT !.pc = "done",
                             !.ret = Returned(ListPackageVersionFiles(index, r.arg))]
              ELSE [r EXCEPT !.pc = "done",
                             !.ret = Returned(found),
                             !.missOnNonEmpty = (found = {} /\ index # {})]]
    /\ UNCHANGED <<callsLeft, tarball, pkgExists, index, blobs, disk, readmes, faultsLeft, lazyTriggers>>

Next ==
    \E p \in Procs :
        \/ CallSync(p)
        \/ CallList(p)
        \/ CallShow(p)
        \/ Ensure(p)
        \/ FindPackage(p)
        \/ CreateTempDir(p)
        \/ Download(p)
        \/ Extract(p)
        \/ FindFile(p)
        \/ Stat(p)
        \/ Integrity(p)
        \/ SaveDist(p)
        \/ CreateFile(p)
        \/ SaveReadme(p)
        \/ RmTar(p)
        \/ RmDir(p)
        \/ Query(p)

Spec == Init /\ [][Next]_vars

SpecSeq == InitSeq /\ [][Next]_vars


(***************************************************************************)
(* Properties.                                                              *)
(***************************************************************************)
\* the syncPackageVersionFiles invocation of p's current call is over
SyncOver(p) == proc[p].syncRet.kind # None
\* p's current call is an explicit syncPackageVersionFiles that is over
SyncCallDone(p) == proc[p].op = "sync" /\ proc[p].pc = "done"
TempGone(p) == TmpDir(Tok(p)) \notin disk /\ TarFile(Tok(p)) \notin disk

\* the file members of the tarball, and their expected index keys: the
\* member name without its first segment, split into directory and name
FileMembers == { k \in 1..Len(tarball.members) : tarball.members[k].type = "File" }
MemberPath(k) == tarball.members[k].path
ExpectedKey(k) ==
    <<VersionId, SubSeq(MemberPath(k), 2, Len(MemberPath(k)) - 1),
      MemberPath(k)[Len(MemberPath(k))]>>
NoHiddenMember ==
    \A k \in FileMembers :
        \A j \in 1..Len(MemberPath(k)) : MemberPath(k)[j] # "."

C2_ConcurrentSyncSafe ==
    /\ \A e1, e2 \in index : Key(e1) = Key(e2) => e1 = e2
    /\ \A p \in Procs :
        (SyncOver(p) /\ proc[p].syncRet.kind = "throw")
            => proc[p].syncRet.val.code = "EIO"

\* C2 witness: both callers ran syncPackageVersionFiles, both returned, and
\* one of them lost an insert race
C2_Witness ==
    /\ \A p \in Procs : SyncCallDone(p) /\ proc[p].ret.kind = "return"
    /\ \E p \in Procs : proc[p].dupAbsorbed
    /\ Cardinality(index) = 2

\* the index entries of the manifest paths, in manifest order
IndexEntries ==
    [k \in 1..Len(AllPaths) |->
        CHOOSE e \in index : Key(e) = <<VersionId, GetDirectoryAndName(AllPaths[k]).directory,
                                        GetDirectoryAndName(AllPaths[k]).name>>]

\* C3: a syncPackageVersionFiles call on a version whose paths are all in
\* the index does no stat, no integrity computation, no saveDist and no
\* insert, and returns the entries of the index: the same ones the call
\* that inserted them returned.
C3_SecondSyncIdempotent ==
    \A p \in Procs :
        (proc[p].op = "sync" /\ proc[p].fullAtStart) =>
            /\ proc[p].work = NoWork
            /\ (proc[p].pc = "done" /\ proc[p].ret.kind = "return") =>
                /\ proc[p].ret.val = IndexEntries
                /\ \A q \in Procs \ {p} :
                    ( /\ SyncCallDone(q)
                      /\ proc[q].ret.kind = "return"
                      /\ Range(proc[q].ret.val) \subseteq index )
                        => proc[q].ret.val = proc[p].ret.val

\* C3 witness: a first sync returned two entries it inserted, and a second
\* sync, started afterwards, returned
C3_Witness ==
    \E p, q \in Procs :
        /\ p # q
        /\ SyncCallDone(q) /\ proc[q].ret.kind = "return"
        /\ Len(proc[q].ret.val) = 2 /\ proc[q].work.insert = 2
        /\ SyncCallDone(p) /\ proc[p].ret.kind = "return"
        /\ proc[p].fullAtStart

\* C4: a sync whose extraction failed with TAR_BAD_ARCHIVE returns the empty
\* sequence and does not throw, whatever the manifest held by then.
C4_BadArchiveReturnsEmpty ==
    \A p \in Procs :
        (SyncOver(p) /\ proc[p].raised.code = "TAR_BAD_ARCHIVE") =>
            /\ proc[p].syncRet.kind = "return"
            /\ proc[p].syncRet.val = <<>>

\* C4 witness: the archive went bad after two entries had been manifested
C4_Witness ==
    \E p \in Procs :
        /\ SyncOver(p)
        /\ proc[p].raised.code = "TAR_BAD_ARCHIVE"
        /\ Len(proc[p].paths) = 2

\* a successful sync of a well-formed tarball on an empty index
CleanSyncDone(p) ==
    /\ SyncCallDone(p)
    /\ proc[p].ret.kind = "return"
    /\ proc[p].emptyAtStart
    /\ pkgExists
    /\ tarball.bad < 0

ExactlyTheMembers(p) ==
    /\ Cardinality(index) = Cardinality(FileMembers)
    /\ { Key(e) : e \in index } = { ExpectedKey(k) : k \in FileMembers }
    /\ Len(proc[p].ret.val) = Cardinality(FileMembers)
    /\ Range(proc[p].ret.val) = index

\* C5 as claimed: for a well-formed tarball with N distinct file members,
\* none under a hidden directory, a successful sync on an empty index leaves
\* exactly N entries, one per member, keyed by the member path without its
\* first segment, and returns them.
C5_OneEntryPerMember ==
    \A p \in Procs :
        ( /\ CleanSyncDone(p)
          /\ NoHiddenMember
          /\ \A j, k \in FileMembers : MemberPath(j) = MemberPath(k) => j = k )
            => ExactlyTheMembers(p)

\* C5 amended: the same, for file members whose paths are still distinct
\* once the first segment is stripped.
C5_OneEntryPerStrippedPath ==
    \A p \in Procs :
        ( /\ CleanSyncDone(p)
          /\ NoHiddenMember
          /\ \A j, k \in FileMembers : ExpectedKey(j) = ExpectedKey(k) => j = k )
            => ExactlyTheMembers(p)

\* C5 witness: a successful sync of a three-file tarball on an empty index
C5_Witness ==
    \E p \in Procs :
        /\ CleanSyncDone(p)
        /\ NoHiddenMember
        /\ Cardinality(FileMembers) = 3
        /\ Cardinality(index) = 3

\* C6: list and show start a sync only when their hasPackageVersionFiles
\* check found no entry, and after a show lookup missed on a non-empty
\* index the call is over: no sync follows.
C6_LazyOnlyWhenEmpty ==
    \A p \in Procs :
        /\ proc[p].lazy => ~proc[p].sawFiles
        /\ (proc[p].op \in {"list", "show"} /\ proc[p].sawFiles) => ~proc[p].synced
        /\ proc[p].missOnNonEmpty => proc[p].pc = "done"

\* C6 witness: a show that found entries in its check, ran no sync, and missed
C6_Witness ==
    \E p \in Procs :
        /\ proc[p].op = "show"
        /\ proc[p].sawFiles
        /\ proc[p].missOnNonEmpty
        /\ ~proc[p].synced

\* C7 as claimed: over any sequence of list and show calls the lazy path
\* triggers the sync at most once.
C7_AtMostOneTrigger == lazyTriggers <= 1

\* C7 amended: the lazy path triggers a sync only while the index holds no
\* entry of the version; once the index holds one, no list or show call
\* triggers a sync any more.
C7_NoTriggerOnceIndexed ==
    [][HasPackageVersionFiles(index) => lazyTriggers' = lazyTriggers]_vars

\* C7 witness: one lazy sync filled the index and a later list or show call
\* completed without triggering another
C7_Witness ==
    /\ lazyTriggers = 1
    /\ index # {}
    /\ \E p \in Procs :
        /\ proc[p].op \in {"list", "show"}
        /\ proc[p].pc = "done"
        /\ proc[p].sawFiles
        /\ ~proc[p].synced

\* C8: whenever show returns absent while the index holds an entry of the
\* version, the path asked for is not a file member of the tarball.
C8_MissMeansNotInTarball ==
    \A p \in Procs :
        proc[p].missOnNonEmpty =>
            \A k \in FileMembers : Tail(MemberPath(k)) # proc[p].arg

\* C9: a call that starts after a sync failed part-way (the index holds
\* some but not all manifested paths and no sync is running) re-attempts the
\* sync, and when that returns every manifested path is in the index.
C9_NextTriggerCompletes ==
    \A p \in Procs :
        (proc[p].pc = "done" /\ proc[p].partialAtStart) =>
            /\ proc[p].synced
            /\ proc[p].ret.kind = "return" => IndexFull

\* C10: a failure in the try block other than TAR_BAD_ARCHIVE (ER_DUP_ENTRY
\* is absorbed before it gets there) ends the sync by throwing that same
\* error, to the caller of sync and through list and show, and only after
\* the finally block ran.
C10_FatalErrorSurfacesAfterCleanup ==
    \A p \in Procs :
        (SyncOver(p) /\ proc[p].raised # NoErr /\ proc[p].raised.code # "TAR_BAD_ARCHIVE") =>
            /\ proc[p].syncRet.kind = "throw"
            /\ proc[p].syncRet.val = proc[p].raised
            /\ proc[p].pc = "done"
            /\ proc[p].ret.kind = "throw"
            /\ proc[p].ret.val = proc[p].raised
            /\ proc[p].cleanupRan
            /\ "tarFile" \in proc[p].rmTried

\* C10 witness: saveDist failed inside a lazily triggered sync, a removal
\* failed too, and the caller of list or show got the saveDist error
C10_Witness ==
    \E p \in Procs :
        /\ SyncOver(p)
        /\ proc[p].lazy
        /\ proc[p].raised = Err("EIO", "saveDist")
        /\ proc[p].rmFailed
        /\ proc[p].ret.kind = "throw"

\* C11: when findPackageByPackageId finds no package, every sync returns
\* the empty sequence without an error, and no temporary directory is made,
\* nothing is downloaded, no blob is written, no entry is inserted and
\* savePackageVersionReadme is not called.
C11_MissingPackageNoEffect ==
    ~pkgExists =>
        /\ disk = {} /\ blobs = {} /\ index = {} /\ readmes = {}
        /\ \A p \in Procs :
            /\ proc[p].pc \in {"idle", "off", "ensure", "sync_findpkg", "query", "done"}
            /\ proc[p].tmp = None
            /\ proc[p].work = NoWork
            /\ SyncOver(p) =>
                /\ proc[p].syncRet.kind = "return"
                /\ proc[p].syncRet.val = <<>>

\* C11 witness: a syncPackageVersionFiles call for a version whose package
\* is not found has returned
C11_Witness ==
    /\ ~pkgExists
    /\ \E p \in Procs : SyncCallDone(p) /\ proc[p].ret.kind = "return"

\* the root-level file members with one of the three README names, and the
\* stripped path of the first of them in archive order
ReadmeMembers ==
    { k \in FileMembers :
        /\ Len(MemberPath(k)) = 2
        /\ MemberPath(k)[2] \in {"README.md", "readme.md", "Readme.md"} }
FirstReadmePath ==
    <<MemberPath(CHOOSE k \in ReadmeMembers : \A j \in ReadmeMembers : k <= j)[2]>>

\* C12: the README of a sync is the first root-level member named
\* README.md, readme.md or Readme.md in archive order, a later match never
\* replaces it, and savePackageVersionReadme is called at most once per
\* sync, with the path of that first match.
C12_FirstReadmeWins ==
    /\ \A rm \in readmes : ReadmeMembers # {} /\ rm[2] = FirstReadmePath
    /\ \A rm1, rm2 \in readmes : rm1[1] = rm2[1] => rm1 = rm2
    /\ \A p \in Procs :
        /\ proc[p].readme # None =>
            (ReadmeMembers # {} /\ proc[p].readme = FirstReadmePath)
        /\ (proc[p].paths = AllPaths /\ ReadmeMembers # {}) =>
            proc[p].readme = FirstReadmePath

\* C12 witness: the tarball holds two README names and
\* savePackageVersionReadme was called
C12_Witness ==
    /\ Cardinality(ReadmeMembers) = 2
    /\ readmes # {}

\* C13: when the insert fails with ER_DUP_ENTRY no error reaches the caller
\* and the entry #savePackageVersionFile returns is the entry of the index.
C13_DuplicateReturnsIndexEntry ==
    \A p \in Procs :
        /\ proc[p].raised.code # "ER_DUP_ENTRY"
        /\ proc[p].dupAbsorbed => Range(proc[p].files) \subseteq index

\* C14: when a removal of the cleanup failed, the sync still delivers what
\* its try/catch produced: the files it returned, or the error it threw.
C14_CleanupFailureKeepsOutcome ==
    \A p \in Procs :
        (SyncOver(p) /\ proc[p].rmFailed) =>
            /\ proc[p].syncRet.kind \in {"return", "throw"}
            /\ proc[p].syncRet.kind = "throw" =>
                (proc[p].raised # NoErr /\ proc[p].syncRet.val = proc[p].raised)
            /\ proc[p].syncRet.kind = "return" =>
                /\ proc[p].syncRet.val = proc[p].files
                /\ proc[p].raised.code \in {None, "TAR_BAD_ARCHIVE"}

\* C14 witness: the try block threw, a removal failed too, and the sync is over
C14_Witness ==
    \E p \in Procs :
        /\ SyncOver(p)
        /\ proc[p].rmFailed
        /\ proc[p].raised.code = "EIO"

\* C15: once the temporary directory was made, the cleanup attempts the
\* removal of the tarball file and of the directory before the sync is over,
\* also when one of the removals fails.
C15_BothRemovalsAttempted ==
    \A p \in Procs :
        (SyncOver(p) /\ proc[p].tmp # None) => proc[p].rmTried = {"tarFile", "tmpdir"}

\* savePackageVersionReadme was called in p's current sync
ReadmeSaved(p) == \E rm \in readmes : rm[1] = Inv(p)

\* C16: savePackageVersionReadme is called only once every manifested path
\* of the sync is materialized: never after a bad archive, an extraction
\* failure or a failed materialization.
C16_ReadmeAfterAllMaterialized ==
    \A p \in Procs :
        (proc[p].pc = "sync_readme" \/ ReadmeSaved(p)) =>
            /\ proc[p].raised = NoErr
            /\ tarball.bad < 0
            /\ proc[p].paths = AllPaths
            /\ Len(proc[p].files) = Len(proc[p].paths)
            /\ \A path \in Range(proc[p].paths) : HasKey(index, path)

\* C16 witness: savePackageVersionReadme was called in a sync that
\* materialized three paths
C16_Witness ==
    \E p \in Procs : ReadmeSaved(p) /\ Len(proc[p].files) = 3

\* C17: a sync whose extraction failed with TAR_BAD_ARCHIVE goes straight to
\* the cleanup: it makes no stat, integrity, saveDist or insert call and no
\* savePackageVersionReadme call, so index and content store stay as they were.
C17_BadArchiveWritesNothing ==
    /\ \A p \in Procs :
        proc[p].raised.code = "TAR_BAD_ARCHIVE" =>
            /\ proc[p].pc \in {"sync_rm_tar", "sync_rm_dir", "query", "done"}
            /\ proc[p].work = NoWork
            /\ proc[p].files = <<>>
            /\ ~ReadmeSaved(p)
    /\ tarball.bad >= 0 => (index = {} /\ blobs = {} /\ readmes = {})

\* C17 witness: a list call whose lazy sync hit a bad archive is over
C17_Witness ==
    \E p \in Procs :
        /\ proc[p].lazy
        /\ proc[p].raised.code = "TAR_BAD_ARCHIVE"
        /\ proc[p].op = "list"
        /\ proc[p].pc = "done"

\* p is between the download and the cleanup of its sync
Reading(p) ==
    proc[p].pc \in {"sync_extract", "sync_find", "sync_stat", "sync_integrity",
                    "sync_savedist", "sync_create", "sync_readme"}

\* C18: two invocations never share a temporary directory or tarball file,
\* so what an invocation reads is there until its own cleanup (no step ever
\* finds it missing), and once an invocation removed its temporary paths
\* nothing makes them again.
C18_TempPathsExclusive ==
    \A p \in Procs :
        /\ proc[p].raised.code # "ENOENT"
        /\ Reading(p) => TmpDir(proc[p].tmp) \in disk
        /\ proc[p].pc = "sync_extract" => TarFile(proc[p].tmp) \in disk
        /\ \A q \in Procs \ {p} :
            (proc[p].tmp # None /\ proc[q].tmp # None) => proc[p].tmp # proc[q].tmp
        /\ (SyncOver(p) /\ proc[p].tmp # None /\ ~proc[p].rmFailed) =>
            (TmpDir(proc[p].tmp) \notin disk /\ TarFile(proc[p].tmp) \notin disk)

\* C18 witness: one sync has removed its temporary paths while the other
\* sync of the same version is about to stat a file of its own
C18_Witness ==
    \E p, q \in Procs :
        /\ p # q
        /\ SyncOver(p) /\ proc[p].rmTried = {"tarFile", "tmpdir"} /\ ~proc[p].rmFailed
        /\ proc[q].pc = "sync_stat"
        /\ TmpDir(proc[q].tmp) \in disk

\* C19: no step removes or changes an index entry: every entry of the
\* index, with its dist, content type and mtime, is still there after the step.
C19_IndexOnlyGrows == [][index \subseteq index']_vars

\* C19 witness: an insert lost against an entry of the other sync, and that
\* entry is still in the index
C19_Witness ==
    \E p \in Procs :
        /\ proc[p].dupAbsorbed
        /\ \E k \in 1..Len(proc[p].files) :
            /\ proc[p].files[k] \notin index
            /\ \E e \in index : Key(e) = Key(proc[p].files[k])

\* C20: the dist of every index entry is in the content store, and a stat,
\* integrity or saveDist failure on a path leaves no entry made for that
\* path by the failing call.
C20_EntryHasSavedBlob ==
    /\ \A e \in index : e.dist \in blobs
    /\ \A p \in Procs :
        proc[p].raised.at \in {"stat", "integrity", "saveDist"} =>
            ~ \E e \in index : e.fileId = <<Inv(p), proc[p].idx>>

\* C20 witness: saveDist failed on the second path after the first one was
\* inserted
C20_Witness ==
    \E p \in Procs :
        /\ proc[p].raised.at = "saveDist"
        /\ proc[p].idx = 2
        /\ Cardinality(index) = 1

=============================================================================
